---- MODULE Spec2Model ----
(***************************************************************************)
(* State-machine model of the zero-alloc limit order book:                 *)
(*   src/src/engine/book.rs     OrderBook (place / modify / cancel)        *)
(*   src/src/engine/matcher.rs  execute_match                              *)
(*   src/src/storage/layout.rs  Order record                               *)
(* Record addresses (OrderPtr) are modelled as slot numbers 1..Capacity in *)
(* bump order; None is 0.                                                  *)
(***************************************************************************)
EXTENDS Integers, Sequences, FiniteSets, TLC

\* ---------------------------------------------------------------- bounds
Capacity == 3
MaxId == 4
MaxPrice == 2
MaxQty == 2
MaxOps == 4

\* size_of::<Order>() (layout.rs: 41 bytes + 7 padding)
OrderSize == 48

None == 0
Ids == 1..MaxId
Prices == 1..MaxPrice
Qtys == 0..MaxQty
Sides == {"Buy", "Sell"}

VARIABLES
    mem,          \* arena contents: slot -> Order record, DOMAIN = slots handed out
    order_arena,  \* number of slots bump-allocated so far
    free_list,    \* Vec<OrderPtr>, last element is the top of the stack
    order_index,  \* HashMap<OrderId, OrderPtr>
    best_bid,     \* Option<OrderPtr>
    best_ask,     \* Option<OrderPtr>
    arrival,      \* history: slots in the order of their latest insert_sorted
    call,         \* the last facade call and how it returned
    trades,       \* the Vec<Trade> that call returned
    ops           \* number of facade calls made so far

vars == <<mem, order_arena, free_list, order_index, best_bid, best_ask,
          arrival, call, trades, ops>>

bookVars ==
    <<mem, order_arena, free_list, order_index, best_bid, best_ask, arrival>>

\* ------------------------------------------------------------ storage
Order_new(id, side, price, qty) ==
    [id |-> id, side |-> side, price |-> price, qty |-> qty,
     next |-> None, prev |-> None]

opposite(side) ==
    IF side = "Buy" THEN "Sell" ELSE "Buy"

Trade(maker_order, taker_id, qty) ==
    [maker_id |-> maker_order.id, taker_id |-> taker_id,
     price |-> maker_order.price, quantity |-> qty,
     maker_side |-> maker_order.side]

\* The book as one value, threaded through the operators below.
Book ==
    [mem |-> mem, order_arena |-> order_arena, free_list |-> free_list,
     order_index |-> order_index, best_bid |-> best_bid,
     best_ask |-> best_ask, arrival |-> arrival]

\* -------------------------------------------------------- introspection
used_bytes(b) == b.order_arena * OrderSize

capacity_bytes == Capacity * OrderSize

active_orders(b) == Cardinality(DOMAIN b.order_index)

free_slots(b) == Len(b.free_list)

best_ask_price(b) ==
    IF b.best_ask = None THEN None ELSE b.mem[b.best_ask].price

best_bid_price(b) ==
    IF b.best_bid = None THEN None ELSE b.mem[b.best_bid].price

\* ------------------------------------------------------------- the book
index_insert(index, id, ptr) ==
    [k \in (DOMAIN index) \cup {id} |-> IF k = id THEN ptr ELSE index[k]]

index_remove(index, id) ==
    [k \in (DOMAIN index) \ {id} |-> index[k]]

remove_order_no_prev(b, ptr) ==
    LET order == b.mem[ptr]
        next_ptr == order.next
        prev_ptr == order.prev
        m2 == IF prev_ptr # None
              THEN [b.mem EXCEPT ![prev_ptr].next = next_ptr] ELSE b.mem
        bb == IF b.best_bid = ptr THEN next_ptr ELSE b.best_bid
        ba == IF b.best_ask = ptr THEN next_ptr ELSE b.best_ask
        m3 == [m2 EXCEPT ![ptr].next = None, ![ptr].prev = None]
    IN  [b EXCEPT !.mem = m3, !.best_bid = bb, !.best_ask = ba]

remove_order(b, ptr) ==
    LET order == b.mem[ptr]
        next_ptr == order.next
        prev_ptr == order.prev
        m1 == IF next_ptr # None
              THEN [b.mem EXCEPT ![next_ptr].prev = prev_ptr] ELSE b.mem
        m2 == IF prev_ptr # None
              THEN [m1 EXCEPT ![prev_ptr].next = next_ptr] ELSE m1
        bb == IF b.best_bid = ptr THEN next_ptr ELSE b.best_bid
        ba == IF b.best_ask = ptr THEN next_ptr ELSE b.best_ask
        m3 == [m2 EXCEPT ![ptr].next = None, ![ptr].prev = None]
    IN  [b EXCEPT !.mem = m3, !.best_bid = bb, !.best_ask = ba]

should_insert_before_ties(side, price, curr_price) ==
    IF side = "Buy" THEN price >= curr_price ELSE price <= curr_price

should_insert_before(side, price, curr_price) ==
    IF side = "Buy" THEN price > curr_price ELSE price < curr_price

\* The while loop of insert_sorted: <<current_ptr, prev_ptr>> at loop exit.
RECURSIVE insert_walk(_, _, _, _, _)
insert_walk(m, side, price, current_ptr, prev_ptr) ==
    IF current_ptr = None THEN <<current_ptr, prev_ptr>>
    ELSE IF should_insert_before(side, price, m[current_ptr].price)
         THEN <<current_ptr, prev_ptr>>
         ELSE insert_walk(m, side, price, m[current_ptr].next, current_ptr)

insert_sorted_head(b, new_ptr, side, price) ==
    LET head == IF side = "Buy" THEN b.best_bid ELSE b.best_ask
        m1 == [b.mem EXCEPT ![new_ptr].next = head, ![new_ptr].prev = None]
        m2 == IF head # None THEN [m1 EXCEPT ![head].prev = new_ptr] ELSE m1
    IN  [b EXCEPT !.mem = m2,
                  !.best_bid = IF side = "Buy" THEN new_ptr ELSE b.best_bid,
                  !.best_ask = IF side = "Sell" THEN new_ptr ELSE b.best_ask,
                  !.arrival = Append(SelectSeq(b.arrival,
                                       LAMBDA s : s # new_ptr), new_ptr)]

insert_sorted_no_back(b, new_ptr, side, price) ==
    LET head == IF side = "Buy" THEN b.best_bid ELSE b.best_ask
        w == insert_walk(b.mem, side, price, head, None)
        current_ptr == w[1]
        prev_ptr == w[2]
        m1 == [b.mem EXCEPT ![new_ptr].next = current_ptr,
                            ![new_ptr].prev = prev_ptr]
        m3 == IF prev_ptr # None
              THEN [m1 EXCEPT ![prev_ptr].next = new_ptr] ELSE m1
        bb == IF prev_ptr = None /\ side = "Buy" THEN new_ptr ELSE b.best_bid
        ba == IF prev_ptr = None /\ side = "Sell" THEN new_ptr ELSE b.best_ask
    IN  [b EXCEPT !.mem = m3, !.best_bid = bb, !.best_ask = ba,
                  !.arrival = Append(SelectSeq(b.arrival,
                                       LAMBDA s : s # new_ptr), new_ptr)]

insert_sorted(b, new_ptr, side, price) ==
    LET head == IF side = "Buy" THEN b.best_bid ELSE b.best_ask
        w == insert_walk(b.mem, side, price, head, None)
        current_ptr == w[1]
        prev_ptr == w[2]
        m1 == [b.mem EXCEPT ![new_ptr].next = current_ptr,
                            ![new_ptr].prev = prev_ptr]
        m2 == IF current_ptr # None
              THEN [m1 EXCEPT ![current_ptr].prev = new_ptr] ELSE m1
        m3 == IF prev_ptr # None
              THEN [m2 EXCEPT ![prev_ptr].next = new_ptr] ELSE m2
        bb == IF prev_ptr = None /\ side = "Buy" THEN new_ptr ELSE b.best_bid
        ba == IF prev_ptr = None /\ side = "Sell" THEN new_ptr ELSE b.best_ask
    IN  [b EXCEPT !.mem = m3, !.best_bid = bb, !.best_ask = ba,
                  !.arrival = Append(SelectSeq(b.arrival,
                                       LAMBDA s : s # new_ptr), new_ptr)]

\* ---------------------------------------------------------- the matcher
crosses_always(taker_side, taker_price, maker_price) == TRUE

crosses_strict(taker_side, taker_price, maker_price) ==
    IF taker_side = "Buy" THEN taker_price > maker_price
                          ELSE taker_price < maker_price

crosses(taker_side, taker_price, maker_price) ==
    IF taker_side = "Buy" THEN taker_price >= maker_price
                          ELSE taker_price <= maker_price

trade_qty_max(taker_qty, maker_qty) ==
    IF taker_qty > maker_qty THEN taker_qty ELSE maker_qty

trade_qty(taker_qty, maker_qty) ==
    IF taker_qty < maker_qty THEN taker_qty ELSE maker_qty

\* The loop of execute_match; ts is the trades vector built so far.
RECURSIVE match_loop(_, _, _, _, _, _)
match_loop(b, taker_id, taker_side, taker_price, taker_qty, ts) ==
    IF taker_qty = 0 THEN [book |-> b, qty |-> taker_qty, trades |-> ts]
    ELSE
    LET maker_ptr == IF taker_side = "Buy" THEN b.best_ask ELSE b.best_bid
    IN  IF maker_ptr = None
        THEN [book |-> b, qty |-> taker_qty, trades |-> ts]
        ELSE
        LET maker_order == b.mem[maker_ptr]
        IN  IF ~crosses(taker_side, taker_price, maker_order.price)
            THEN [book |-> b, qty |-> taker_qty, trades |-> ts]
            ELSE
            LET tq == trade_qty(taker_qty, maker_order.qty)
                ts2 == Append(ts, Trade(maker_order, taker_id, tq))
                maker_left == maker_order.qty - tq
                b1 == [b EXCEPT !.mem[maker_ptr].qty = maker_left]
                b2 == IF maker_left = 0 THEN remove_order(b1, maker_ptr)
                                        ELSE b1
            IN  match_loop(b2, taker_id, taker_side, taker_price,
                           taker_qty - tq, ts2)

execute_match(b, taker_id, taker_side, taker_price, taker_qty) ==
    match_loop(b, taker_id, taker_side, taker_price, taker_qty, <<>>)

\* ------------------------------------------------------------ the facade
\* Arena::alloc (external crate llt_rs): bump allocation of one record out of
\* capacity * size_of::<Order>() bytes.  It returns a plain reference, so an
\* exhausted arena cannot be reported through the return value: None here
\* stands for the allocator aborting the call.
arena_alloc(b) ==
    IF b.order_arena < Capacity THEN b.order_arena + 1 ELSE None

place_remainder_fresh(b1, id, side, price, remaining_qty, ts) ==
    LET new_order_data == Order_new(id, side, price, remaining_qty)
        order_ptr == arena_alloc(b1)
    IN  IF order_ptr # None
        THEN
          LET b2 == [b1 EXCEPT
                       !.order_arena = order_ptr,
                       !.mem = [s \in 1..order_ptr |->
                                  IF s = order_ptr THEN new_order_data
                                                   ELSE b1.mem[s]]]
              b3 == insert_sorted(b2, order_ptr, side, price)
              b4 == [b3 EXCEPT !.order_index =
                       index_insert(b3.order_index, id, order_ptr)]
          IN  [book |-> b4, result |-> "Ok", ptr |-> order_ptr, trades |-> ts]
        ELSE IF Len(b1.free_list) > 0
        THEN
          LET recycled_ptr == b1.free_list[Len(b1.free_list)]
              b2 == [b1 EXCEPT
                       !.free_list = SubSeq(b1.free_list, 1,
                                            Len(b1.free_list) - 1),
                       !.mem[recycled_ptr] = new_order_data]
              b3 == insert_sorted(b2, recycled_ptr, side, price)
              b4 == [b3 EXCEPT !.order_index =
                       index_insert(b3.order_index, id, recycled_ptr)]
          IN  [book |-> b4, result |-> "Ok", ptr |-> recycled_ptr,
               trades |-> ts]
        ELSE [book |-> b1, result |-> "Panic", ptr |-> None, trades |-> <<>>]

\* STEP 2 of place_limit_order: take a record (free list first, else the
\* arena), write the remainder into it, link it and index it.
place_remainder(b1, id, side, price, remaining_qty, ts) ==
    LET new_order_data == Order_new(id, side, price, remaining_qty)
    IN  IF Len(b1.free_list) > 0
        THEN
          LET recycled_ptr == b1.free_list[Len(b1.free_list)]
              b2 == [b1 EXCEPT
                       !.free_list = SubSeq(b1.free_list, 1,
                                            Len(b1.free_list) - 1),
                       !.mem[recycled_ptr] = new_order_data]
              b3 == insert_sorted(b2, recycled_ptr, side, price)
              b4 == [b3 EXCEPT !.order_index =
                       index_insert(b3.order_index, id, recycled_ptr)]
          IN  [book |-> b4, result |-> "Ok", ptr |-> recycled_ptr,
               trades |-> ts]
        ELSE
          LET order_ptr == arena_alloc(b1)
          IN  IF order_ptr = None
              THEN [book |-> b1, result |-> "Panic", ptr |-> None,
                    trades |-> <<>>]
              ELSE
              LET b2 == [b1 EXCEPT
                           !.order_arena = order_ptr,
                           !.mem = [s \in 1..order_ptr |->
                                      IF s = order_ptr THEN new_order_data
                                                       ELSE b1.mem[s]]]
                  b3 == insert_sorted(b2, order_ptr, side, price)
                  b4 == [b3 EXCEPT !.order_index =
                           index_insert(b3.order_index, id, order_ptr)]
              IN  [book |-> b4, result |-> "Ok", ptr |-> order_ptr,
                   trades |-> ts]

place_limit_order_late_check(b, id, side, price, qty) ==
    LET m == execute_match(b, id, side, price, qty)
    IN  IF id \in DOMAIN b.order_index
        THEN [book |-> m.book, result |-> "DuplicateId", ptr |-> None,
              trades |-> <<>>]
        ELSE IF m.qty = 0
        THEN [book |-> m.book, result |-> "Ok", ptr |-> None,
              trades |-> m.trades]
        ELSE place_remainder(m.book, id, side, price, m.qty, m.trades)

place_limit_order_rest_zero(b, id, side, price, qty) ==
    IF id \in DOMAIN b.order_index
    THEN [book |-> b, result |-> "DuplicateId", ptr |-> None, trades |-> <<>>]
    ELSE
    LET m == execute_match(b, id, side, price, qty)
    IN  place_remainder(m.book, id, side, price, m.qty, m.trades)

place_limit_order(b, id, side, price, qty) ==
    IF id \in DOMAIN b.order_index
    THEN [book |-> b, result |-> "DuplicateId", ptr |-> None, trades |-> <<>>]
    ELSE
    LET m == execute_match(b, id, side, price, qty)
    IN  IF m.qty = 0
        THEN [book |-> m.book, result |-> "Ok", ptr |-> None,
              trades |-> m.trades]
        ELSE place_remainder(m.book, id, side, price, m.qty, m.trades)

cancel_order_leak(b, id) ==
    IF id \notin DOMAIN b.order_index
    THEN [book |-> b, result |-> "NotFound"]
    ELSE
    LET order_ptr == b.order_index[id]
        b1 == [b EXCEPT !.order_index = index_remove(b.order_index, id)]
        b2 == remove_order(b1, order_ptr)
    IN  [book |-> b2, result |-> "Ok"]

cancel_order_keep_index(b, id) ==
    IF id \notin DOMAIN b.order_index
    THEN [book |-> b, result |-> "NotFound"]
    ELSE
    LET order_ptr == b.order_index[id]
        b2 == remove_order(b, order_ptr)
        b3 == [b2 EXCEPT !.free_list = Append(b2.free_list, order_ptr)]
    IN  [book |-> b3, result |-> "Ok"]

cancel_order(b, id) ==
    IF id \notin DOMAIN b.order_index
    THEN [book |-> b, result |-> "NotFound"]
    ELSE
    LET order_ptr == b.order_index[id]
        b1 == [b EXCEPT !.order_index = index_remove(b.order_index, id)]
        b2 == remove_order(b1, order_ptr)
        b3 == [b2 EXCEPT !.free_list = Append(b2.free_list, order_ptr)]
    IN  [book |-> b3, result |-> "Ok"]

modify_order_relist(b, id, new_price, new_qty) ==
    IF id \notin DOMAIN b.order_index
    THEN [book |-> b, result |-> "NotFound", ptr |-> None, trades |-> <<>>]
    ELSE
    LET order == b.mem[b.order_index[id]]
    IN  place_limit_order(cancel_order(b, id).book, id, order.side,
                          new_price, new_qty)

modify_order_place_first(b, id, new_price, new_qty) ==
    IF id \notin DOMAIN b.order_index
    THEN [book |-> b, result |-> "NotFound", ptr |-> None, trades |-> <<>>]
    ELSE
    LET order_ptr == b.order_index[id]
        order == b.mem[order_ptr]
    IN  IF order.price = new_price /\ new_qty <= order.qty
        THEN
          LET b1 == [b EXCEPT !.mem[order_ptr].qty = new_qty]
          IN  IF new_qty = 0
              THEN [book |-> cancel_order(b1, id).book, result |-> "Ok",
                    ptr |-> None, trades |-> <<>>]
              ELSE [book |-> b1, result |-> "Ok", ptr |-> order_ptr,
                    trades |-> <<>>]
        ELSE
          LET r == place_limit_order(b, id, order.side, new_price, new_qty)
          IN  [r EXCEPT !.book = cancel_order(r.book, id).book]

modify_order_zero_rests(b, id, new_price, new_qty) ==
    IF id \notin DOMAIN b.order_index
    THEN [book |-> b, result |-> "NotFound", ptr |-> None, trades |-> <<>>]
    ELSE
    LET order_ptr == b.order_index[id]
        order == b.mem[order_ptr]
    IN  IF order.price = new_price /\ new_qty <= order.qty
        THEN [book |-> [b EXCEPT !.mem[order_ptr].qty = new_qty],
              result |-> "Ok", ptr |-> order_ptr, trades |-> <<>>]
        ELSE place_limit_order(cancel_order(b, id).book, id, order.side,
                               new_price, new_qty)

modify_order_upsert(b, id, new_price, new_qty) ==
    IF id \notin DOMAIN b.order_index
    THEN place_limit_order(b, id, "Buy", new_price, new_qty)
    ELSE
    LET order_ptr == b.order_index[id]
        order == b.mem[order_ptr]
    IN  IF order.price = new_price /\ new_qty <= order.qty
        THEN
          LET b1 == [b EXCEPT !.mem[order_ptr].qty = new_qty]
          IN  IF new_qty = 0
              THEN [book |-> cancel_order(b1, id).book, result |-> "Ok",
                    ptr |-> None, trades |-> <<>>]
              ELSE [book |-> b1, result |-> "Ok", ptr |-> order_ptr,
                    trades |-> <<>>]
        ELSE place_limit_order(cancel_order(b, id).book, id, order.side,
                               new_price, new_qty)

modify_order(b, id, new_price, new_qty) ==
    IF id \notin DOMAIN b.order_index
    THEN [book |-> b, result |-> "NotFound", ptr |-> None, trades |-> <<>>]
    ELSE
    LET order_ptr == b.order_index[id]
        order == b.mem[order_ptr]
    IN  IF order.price = new_price /\ new_qty <= order.qty
        THEN
          LET b1 == [b EXCEPT !.mem[order_ptr].qty = new_qty]
          IN  IF new_qty = 0
              THEN [book |-> cancel_order(b1, id).book, result |-> "Ok",
                    ptr |-> None, trades |-> <<>>]
              ELSE [book |-> b1, result |-> "Ok", ptr |-> order_ptr,
                    trades |-> <<>>]
        ELSE place_limit_order(cancel_order(b, id).book, id, order.side,
                               new_price, new_qty)

\* --------------------------------------------------------- state machine
NoCall ==
    [op |-> "new", id |-> 0, side |-> "Buy", price |-> 0, qty |-> 0,
     result |-> "Ok"]

Init ==
    /\ mem = <<>>
    /\ order_arena = 0
    /\ free_list = <<>>
    /\ order_index = <<>>
    /\ best_bid = None
    /\ best_ask = None
    /\ arrival = <<>>
    /\ call = NoCall
    /\ trades = <<>>
    /\ ops = 0

SetBook(b) ==
    /\ mem' = b.mem
    /\ order_arena' = b.order_arena
    /\ free_list' = b.free_list
    /\ order_index' = b.order_index
    /\ best_bid' = b.best_bid
    /\ best_ask' = b.best_ask
    /\ arrival' = b.arrival

\* A panic of the arena ends the process: no call follows it.  The number of
\* calls explored is capped by MaxOps.
Running ==
    /\ call.result # "Panic"
    /\ ops < MaxOps
    /\ ops' = ops + 1

PlaceLimitOrder(id, side, price, qty) ==
    /\ Running
    /\ LET r == place_limit_order(Book, id, side, price, qty)
       IN  /\ SetBook(r.book)
           /\ call' = [op |-> "place", id |-> id, side |-> side,
                       price |-> price, qty |-> qty, result |-> r.result]
           /\ trades' = r.trades

ModifyOrder(id, new_price, new_qty) ==
    /\ Running
    /\ LET side == IF id \in DOMAIN order_index
                   THEN mem[order_index[id]].side ELSE "Buy"
           r == modify_order(Book, id, new_price, new_qty)
       IN  /\ SetBook(r.book)
           /\ call' = [op |-> "modify", id |-> id, side |-> side,
                       price |-> new_price, qty |-> new_qty,
                       result |-> r.result]
           /\ trades' = r.trades

CancelOrder(id) ==
    /\ Running
    /\ LET r == cancel_order(Book, id)
       IN  /\ SetBook(r.book)
           /\ call' = [op |-> "cancel", id |-> id, side |-> "Buy",
                       price |-> 0, qty |-> 0, result |-> r.result]
           /\ trades' = <<>>

Next ==
    \/ \E id \in Ids, side \in Sides, price \in Prices, qty \in Qtys :
         PlaceLimitOrder(id, side, price, qty)
    \/ \E id \in Ids, price \in Prices, qty \in Qtys :
         ModifyOrder(id, price, qty)
    \/ \E id \in Ids : CancelOrder(id)

Spec == Init /\ [][Next]_vars

\* ------------------------------------------------- reading the chains
\* The slots met by following next-links from p, at most n of them.
RECURSIVE chain_from(_, _, _)
chain_from(m, p, n) ==
    IF p = None \/ n = 0 THEN <<>>
    ELSE <<p>> \o chain_from(m, m[p].next, n - 1)

BidChain == chain_from(mem, best_bid, Capacity + 1)

AskChain == chain_from(mem, best_ask, Capacity + 1)

Range(f) == {f[i] : i \in DOMAIN f}

Linked == Range(BidChain) \cup Range(AskChain)

RestingIds == {mem[p].id : p \in Linked}

\* Position of slot p in the arrival history (its latest insert_sorted).
ArrivalPos(p) == CHOOSE i \in 1..Len(arrival) : arrival[i] = p

RECURSIVE SumQty(_, _)
SumQty(ts, n) ==
    IF n = 0 THEN 0 ELSE SumQty(ts, n - 1) + ts[n].quantity

\* The last step was a call that ran the matcher and returned normally.
Matched == call.op \in {"place", "modify"} /\ call.result = "Ok"

\* ------------------------------------------------------------------ C1
\* C1: after a place_limit_order / re-placing modify_order returns, every
\* maker whose resting quantity the call drove to zero is gone from the
\* Identifier Index and from both chains.
C1_FullFillRemoval ==
    [][Matched' =>
         \A i \in 1..Len(trades') :
           LET maker == trades'[i].maker_id
               p == order_index[maker]
           IN  mem[p].qty = trades'[i].quantity =>
                 /\ maker \notin DOMAIN order_index'
                 /\ p \notin Linked']_vars

\* ------------------------------------------------------------------ C2
\* C2: every indexed identifier maps to a record holding that identifier and
\* linked into exactly the chain of its side; every linked record is indexed
\* under its own identifier.
C2_IndexMatchesChains ==
    /\ \A id \in DOMAIN order_index :
         LET p == order_index[id]
         IN  /\ mem[p].id = id
             /\ mem[p].side = "Buy" =>
                  p \in Range(BidChain) /\ p \notin Range(AskChain)
             /\ mem[p].side = "Sell" =>
                  p \in Range(AskChain) /\ p \notin Range(BidChain)
    /\ \A p \in Linked :
         /\ mem[p].id \in DOMAIN order_index
         /\ order_index[mem[p].id] = p

\* ------------------------------------------------------------------ C3
\* C3: the bid chain is non-increasing and the ask chain non-decreasing in
\* price head-to-tail, and records of equal price on one side stand in the
\* order of their latest insertion into the chain.
SortedChain(c, side) ==
    \A i, j \in 1..Len(c) :
      i < j =>
        /\ IF side = "Buy" THEN mem[c[i]].price >= mem[c[j]].price
                           ELSE mem[c[i]].price <= mem[c[j]].price
        /\ mem[c[i]].price = mem[c[j]].price =>
             ArrivalPos(c[i]) < ArrivalPos(c[j])

C3_Sorted ==
    /\ SortedChain(BidChain, "Buy")
    /\ SortedChain(AskChain, "Sell")

\* A re-placed order (modify slow path) standing behind an untouched order of
\* the same price, in a slot with a lower address than the one in front.
C3_Witness ==
    /\ call.op = "modify"
    /\ call.result = "Ok"
    /\ \E c \in {BidChain, AskChain} :
         /\ Len(c) = 2
         /\ mem[c[1]].price = mem[c[2]].price
         /\ c[2] < c[1]
         /\ mem[c[2]].id = call.id

\* ------------------------------------------------------------------ C4
\* C4: every trade of a call has quantity min(taker remaining before it,
\* maker resting quantity before it); the maker's resting quantity drops by
\* exactly that; requested quantity minus the sum of the trades is what is
\* written into the resting record, or 0 when none rests; no quantity goes
\* below zero.
C4_Conservation ==
    [][Matched' =>
         LET ts == trades'
             left == call'.qty - SumQty(ts, Len(ts))
         IN  /\ \A i \in 1..Len(ts) :
                  LET p == order_index[ts[i].maker_id]
                      before == call'.qty - SumQty(ts, i - 1)
                  IN  /\ ts[i].quantity = IF before < mem[p].qty
                                          THEN before ELSE mem[p].qty
                      /\ mem'[p].qty = mem[p].qty - ts[i].quantity
                      /\ mem'[p].qty >= 0
             /\ left >= 0
             /\ IF call'.id \in RestingIds'
                THEN /\ call'.id \in DOMAIN order_index'
                     /\ mem'[order_index'[call'.id]].qty = left
                ELSE left = 0
             /\ \A p \in DOMAIN mem' : mem'[p].qty >= 0]_vars

\* A taker partially filled by one maker, its remainder now resting.
C4_Witness ==
    /\ call.op = "place"
    /\ call.result = "Ok"
    /\ Len(trades) = 1
    /\ call.id \in DOMAIN order_index
    /\ mem[order_index[call.id]].qty = call.qty - trades[1].quantity
    /\ mem[order_index[call.id]].qty > 0

\* ------------------------------------------------------------------ C5
\* C5: every trade executes at the maker's resting price, which does not
\* exceed a Buy taker's limit (is not below a Sell taker's limit); the maker
\* is on the opposite side and taker_id is the id passed to the call.
C5_MakerPrice ==
    [][Matched' =>
         \A i \in 1..Len(trades') :
           LET t == trades'[i]
               p == order_index[t.maker_id]
           IN  /\ t.price = mem[p].price
               /\ t.maker_side = mem[p].side
               /\ t.taker_id = call'.id
               /\ call'.side = "Buy" =>
                    t.price <= call'.price /\ t.maker_side = "Sell"
               /\ call'.side = "Sell" =>
                    t.price >= call'.price /\ t.maker_side = "Buy"]_vars

\* A Buy taker trading below its own limit price.
C5_Witness ==
    /\ Matched
    /\ call.side = "Buy"
    /\ Len(trades) >= 1
    /\ trades[1].price < call.price
    /\ trades[1].taker_id = call.id

\* ------------------------------------------------------------------ C6
\* C6: the trades of one call come in price-time priority: maker prices are
\* non-decreasing for a Buy taker (non-increasing for a Sell taker), makers
\* of equal price trade in arrival order, and a maker trades only after every
\* opposite-side order of strictly better priority resting at the start of
\* the call was fully filled earlier in the call.
Better(side, p, q) ==
    \/ IF side = "Sell" THEN mem[p].price < mem[q].price
                        ELSE mem[p].price > mem[q].price
    \/ mem[p].price = mem[q].price /\ ArrivalPos(p) < ArrivalPos(q)

C6_PriceTimePriority ==
    [][Matched' =>
         LET ts == trades'
             opp == IF call'.side = "Buy" THEN AskChain ELSE BidChain
             slot(i) == order_index[ts[i].maker_id]
         IN  \A j \in 1..Len(ts) :
               /\ slot(j) \in Range(opp)
               /\ \A i \in 1..(j - 1) :
                    /\ IF call'.side = "Buy" THEN ts[i].price <= ts[j].price
                                             ELSE ts[i].price >= ts[j].price
                    /\ ts[i].price = ts[j].price =>
                         ArrivalPos(slot(i)) < ArrivalPos(slot(j))
               /\ \A o \in Range(opp) :
                    Better(opposite(call'.side), o, slot(j)) =>
                      \E k \in 1..(j - 1) :
                        /\ ts[k].maker_id = mem[o].id
                        /\ ts[k].quantity = mem[o].qty]_vars

\* Scenario C: one trade against the earlier of two makers of equal price,
\* the later one still resting with its quantity untouched.
C6_Witness ==
    /\ call.op = "place"
    /\ call.result = "Ok"
    /\ Len(trades) = 1
    /\ call.id \notin RestingIds
    /\ LET opp == IF call.side = "Buy" THEN AskChain ELSE BidChain
       IN  /\ Len(opp) = 1
           /\ mem[opp[1]].price = trades[1].price
           /\ mem[opp[1]].qty = trades[1].quantity
           /\ mem[opp[1]].id # trades[1].maker_id

\* ------------------------------------------------------------------ C7
\* C7: place_limit_order with an id that is in the Identifier Index returns
\* DuplicateId, produces no trade and changes nothing of the book, also when
\* its price crosses the opposite side.
C7_DuplicateNoOp ==
    [][(call'.op = "place" /\ call'.id \in DOMAIN order_index) =>
         /\ call'.result = "DuplicateId"
         /\ trades' = <<>>
         /\ UNCHANGED bookVars]_vars

\* A rejected duplicate whose price crosses the best of the opposite side.
C7_Witness ==
    /\ call.op = "place"
    /\ call.result = "DuplicateId"
    /\ call.qty > 0
    /\ \/ call.side = "Buy" /\ best_ask # None
            /\ call.price >= mem[best_ask].price
       \/ call.side = "Sell" /\ best_bid # None
            /\ call.price <= mem[best_bid].price

\* ------------------------------------------------------------------ C8
\* C8: an identifier whose order is no longer resting (cancelled, or fully
\* filled as a maker) is accepted again by place_limit_order.
C8_IdentifierReuse ==
    [][(call'.op = "place" /\ call'.id \notin RestingIds) =>
         call'.result # "DuplicateId"]_vars

\* ------------------------------------------------------------------ C9
\* C9: a placement that needs a record while the free list is empty and the
\* arena is full returns a failed-placement error, still returns the trades
\* of the fills already made, and leaves the taker unlinked and unindexed.
C9_ExhaustedCapacity ==
    [][(/\ call'.op = "place"
        /\ call'.id \notin DOMAIN order_index
        /\ LET m == execute_match(Book, call'.id, call'.side, call'.price,
                                  call'.qty)
           IN  /\ m.qty > 0
               /\ Len(m.book.free_list) = 0
               /\ m.book.order_arena = Capacity)
       =>
       /\ call'.result = "ExhaustedCapacity"
       /\ trades' = execute_match(Book, call'.id, call'.side, call'.price,
                                  call'.qty).trades
       /\ call'.id \notin DOMAIN order_index'
       /\ call'.id \notin RestingIds']_vars

\* ----------------------------------------------------------------- C10
\* C10: cancel_order / modify_order with an id that is not in the Identifier
\* Index returns NotFound and changes nothing of the book.
C10_NotFoundNoOp ==
    [][(call'.op \in {"cancel", "modify"}
        /\ call'.id \notin DOMAIN order_index) =>
         /\ call'.result = "NotFound"
         /\ trades' = <<>>
         /\ UNCHANGED bookVars]_vars

\* NotFound for an id that was placed and cancelled before: its record is
\* still in a recycled slot.
C10_Witness ==
    /\ call.op \in {"cancel", "modify"}
    /\ call.result = "NotFound"
    /\ \E i \in 1..Len(free_list) : mem[free_list[i]].id = call.id
    /\ order_arena > Len(free_list)

\* ----------------------------------------------------------------- C11
\* C11: a placement that rests without matching, then cancel_order of that
\* id, then another non-matching placement: used_bytes is unchanged by the
\* cancel and after the second placement equals its value after the first;
\* free_slots is one higher after the cancel and back to its value before the
\* cancel after the second placement.
C11_Recycling ==
    [][(/\ call.op = "place"
        /\ call.result = "Ok"
        /\ trades = <<>>
        /\ call.id \in RestingIds
        /\ call'.op = "cancel"
        /\ call'.id = call.id)
       =>
       /\ call'.result = "Ok"
       /\ used_bytes(Book') = used_bytes(Book)
       /\ free_slots(Book') = free_slots(Book) + 1
       /\ \A id2 \in Ids, side \in Sides, price \in Prices, qty \in Qtys :
            LET r == place_limit_order(Book', id2, side, price, qty)
            IN  (r.result = "Ok" /\ r.trades = <<>> /\ r.ptr # None) =>
                  /\ used_bytes(r.book) = used_bytes(Book)
                  /\ free_slots(r.book) = free_slots(Book)]_vars

\* The book right after place -> cancel of the same id: one slot was taken
\* from the arena and now waits in the free list with the order's data.
C11_Witness ==
    /\ ops = 2
    /\ call.op = "cancel"
    /\ call.result = "Ok"
    /\ order_arena = 1
    /\ free_list = <<1>>
    /\ mem[1].id = call.id
    /\ mem[1].qty > 0

\* ----------------------------------------------------------------- C12
\* C12: used_bytes never decreases; it grows, by exactly one record size,
\* only in a place_limit_order that leaves a resting remainder while the free
\* list is empty; with a non-empty free list a placement takes the recycled
\* slot and used_bytes is unchanged; cancel_order and matching never change
\* it.
C12_UsedBytesMonotone ==
    [][LET u == used_bytes(Book)
           u2 == used_bytes(Book')
       IN  /\ u2 >= u
           /\ u2 # u =>
                /\ call'.op = "place"
                /\ call'.result = "Ok"
                /\ u2 = u + OrderSize
                /\ free_list = <<>>
                /\ call'.id \in RestingIds'
           /\ (/\ call'.op = "place"
               /\ call'.result = "Ok"
               /\ call'.id \in RestingIds'
               /\ free_list # <<>>) =>
                /\ u2 = u
                /\ order_index'[call'.id] = free_list[Len(free_list)]
                /\ free_list' = SubSeq(free_list, 1, Len(free_list) - 1)
           /\ call'.op = "cancel" => u2 = u
           /\ call'.id \notin RestingIds' => u2 = u]_vars

\* A placement that went into the recycled slot 1 although the arena had
\* already handed out two slots.
C12_Witness ==
    /\ call.op = "place"
    /\ call.result = "Ok"
    /\ call.id \in DOMAIN order_index
    /\ order_index[call.id] = 1
    /\ order_arena = 2
    /\ used_bytes(Book) = 2 * OrderSize

\* ----------------------------------------------------------------- C13
\* C13: the slots referenced by the Identifier Index and the slots in the free
\* list are disjoint, no slot occurs twice in the free list or under two
\* identifiers, and active_orders + free_slots is the number of slots ever
\* taken from the arena.
IndexedSlots == {order_index[k] : k \in DOMAIN order_index}

C13_SlotAccounting ==
    /\ IndexedSlots \cap Range(free_list) = {}
    /\ Cardinality(Range(free_list)) = Len(free_list)
    /\ Cardinality(IndexedSlots) = Cardinality(DOMAIN order_index)
    /\ active_orders(Book) + free_slots(Book) = order_arena
    /\ (active_orders(Book) + free_slots(Book)) * OrderSize = used_bytes(Book)
    /\ IndexedSlots \cup Range(free_list) = 1..order_arena

\* All three slots handed out, one of them recycled by a cancel, two indexed.
C13_Witness ==
    /\ call.op = "cancel"
    /\ call.result = "Ok"
    /\ order_arena = 3
    /\ free_slots(Book) = 1
    /\ active_orders(Book) = 2

\* ----------------------------------------------------------------- C14
\* C14: modify_order on a resting order with its current price and a
\* quantity 0 < new_qty <= current only writes new_qty into that record: same
\* slot, same links and heads, every other record, the index, the free list
\* and used_bytes unchanged, no trades.
C14_ModifyFastPath ==
    [][(/\ call'.op = "modify"
        /\ call'.id \in DOMAIN order_index
        /\ mem[order_index[call'.id]].price = call'.price
        /\ call'.qty > 0
        /\ call'.qty <= mem[order_index[call'.id]].qty)
       =>
       LET p == order_index[call'.id]
       IN  /\ call'.result = "Ok"
           /\ trades' = <<>>
           /\ mem' = [mem EXCEPT ![p].qty = call'.qty]
           /\ UNCHANGED <<order_index, order_arena, free_list, best_bid,
                          best_ask, arrival>>
           /\ BidChain' = BidChain
           /\ AskChain' = AskChain
           /\ used_bytes(Book') = used_bytes(Book)]_vars

\* A modified order still standing in front of a later order of the same
\* price: it was shrunk in place, not relisted.
C14_Witness ==
    /\ call.op = "modify"
    /\ call.result = "Ok"
    /\ call.id \in DOMAIN order_index
    /\ LET p == order_index[call.id]
       IN  /\ mem[p].qty = call.qty
           /\ mem[p].price = call.price
           /\ \E c \in {BidChain, AskChain} :
                /\ Len(c) >= 2
                /\ c[1] = p
                /\ mem[c[2]].price = mem[p].price

\* ----------------------------------------------------------------- C15
\* C15: modify_order on a resting order with another price or a larger
\* quantity gives exactly the book and the trades of cancel_order(id)
\* followed by place_limit_order(id, same side, new_price, new_qty); it never
\* fails with DuplicateId, and if the order rests again it stands behind
\* every resting order of its new price.
C15_ModifySlowPath ==
    [][(/\ call'.op = "modify"
        /\ call'.id \in RestingIds
        /\ \/ mem[order_index[call'.id]].price # call'.price
           \/ call'.qty > mem[order_index[call'.id]].qty)
       =>
       LET id == call'.id
           side == mem[order_index[id]].side
           c == cancel_order(Book, id)
           r == place_limit_order(c.book, id, side, call'.price, call'.qty)
           ch == IF side = "Buy" THEN BidChain' ELSE AskChain'
       IN  /\ c.result = "Ok"
           /\ Book' = r.book
           /\ trades' = r.trades
           /\ call'.result = r.result
           /\ call'.result = "Ok"
           /\ id \in RestingIds' =>
                \A i, j \in 1..Len(ch) :
                  (/\ ch[j] = order_index'[id]
                   /\ i # j
                   /\ mem'[ch[i]].price = call'.price) => i < j]_vars

\* Scenario E: the order placed first was modified to a worse price and now
\* stands behind the order that arrived after it.
C15_Witness ==
    /\ call.op = "modify"
    /\ call.result = "Ok"
    /\ trades = <<>>
    /\ \E c \in {BidChain, AskChain} :
         /\ Len(c) = 2
         /\ mem[c[2]].id = call.id
         /\ mem[c[2]].price = call.price
         /\ mem[c[1]].price # mem[c[2]].price
         /\ c[2] < c[1]
         /\ ArrivalPos(c[1]) < ArrivalPos(c[2])

\* ----------------------------------------------------------------- C16
\* C16: a place_limit_order call that fully fills k makers and leaves no
\* resting taker raises free_slots by exactly k (each filled maker's slot is
\* pushed to the Slot Recycler).
FullFills(ts) ==
    Cardinality({i \in 1..Len(ts) :
                   mem[order_index[ts[i].maker_id]].qty = ts[i].quantity})

C16_FullFillRecycles ==
    [][(/\ call'.op = "place"
        /\ call'.result = "Ok"
        /\ call'.id \notin RestingIds')
       => free_slots(Book') = free_slots(Book) + FullFills(trades')]_vars

\* ----------------------------------------------------------------- C17
\* C17: cancel_order(id) on a resting order succeeds, removes id from the
\* index, unlinks exactly that record (its former neighbours become adjacent,
\* the head of its side becomes its successor if it was the head), pushes its
\* slot on the free list, and leaves the other side's chain and every other
\* record's place, price and quantity unchanged.
Without(c, p) == SelectSeq(c, LAMBDA s : s # p)

C17_CancelFrame ==
    [][(call'.op = "cancel" /\ call'.id \in RestingIds)
       =>
       LET id == call'.id
           p == order_index[id]
           n == mem[p].next
           q == mem[p].prev
       IN  /\ call'.result = "Ok"
           /\ order_index' = index_remove(order_index, id)
           /\ active_orders(Book') = active_orders(Book) - 1
           /\ free_list' = Append(free_list, p)
           /\ free_slots(Book') = free_slots(Book) + 1
           /\ BidChain' = Without(BidChain, p)
           /\ AskChain' = Without(AskChain, p)
           /\ n # None => mem'[n].prev = q
           /\ q # None => mem'[q].next = n
           /\ best_bid = p => best_bid' = n
           /\ best_ask = p => best_ask' = n
           /\ best_bid # p => best_bid' = best_bid
           /\ best_ask # p => best_ask' = best_ask
           /\ \A s \in (DOMAIN mem) \ {p} :
                /\ mem'[s].id = mem[s].id
                /\ mem'[s].side = mem[s].side
                /\ mem'[s].price = mem[s].price
                /\ mem'[s].qty = mem[s].qty
           /\ order_arena' = order_arena
           /\ trades' = <<>>]_vars

\* The middle one of three orders of one price was cancelled: the first and
\* the third are now neighbours.
C17_Witness ==
    /\ call.op = "cancel"
    /\ call.result = "Ok"
    /\ free_list = <<2>>
    /\ mem[2].id = call.id
    /\ mem[2].qty > 0
    /\ \E c \in {BidChain, AskChain} :
         /\ c = <<1, 3>>
         /\ mem[1].next = 3
         /\ mem[3].prev = 1
         /\ mem[2].side = mem[1].side
         /\ mem[2].price = mem[1].price
         /\ mem[2].price = mem[3].price

\* ----------------------------------------------------------------- C18
\* C18: modify_order(id, current_price, 0) on a resting order leaves the book
\* as cancel_order(id) would: record unlinked, id out of the index, slot
\* pushed on the free list; no resting order and no trades come back.  (The
\* recycled record's own leftover qty field reads 0 instead of the old
\* quantity; nothing reads it before the slot is overwritten.)
C18_ModifyToZero ==
    [][(/\ call'.op = "modify"
        /\ call'.id \in RestingIds
        /\ mem[order_index[call'.id]].price = call'.price
        /\ call'.qty = 0)
       =>
       LET id == call'.id
           p == order_index[id]
           c == cancel_order(Book, id)
       IN  /\ call'.result = "Ok"
           /\ c.result = "Ok"
           /\ trades' = <<>>
           /\ id \notin RestingIds'
           /\ id \notin DOMAIN order_index'
           /\ order_index' = c.book.order_index
           /\ free_list' = c.book.free_list
           /\ free_list'[Len(free_list')] = p
           /\ best_bid' = c.book.best_bid
           /\ best_ask' = c.book.best_ask
           /\ order_arena' = c.book.order_arena
           /\ arrival' = c.book.arrival
           /\ mem' = [c.book.mem EXCEPT ![p].qty = 0]]_vars

\* Two calls: an order was placed and then modified to quantity 0 at its own
\* price; its slot is in the free list.
C18_Witness ==
    /\ ops = 2
    /\ call.op = "modify"
    /\ call.result = "Ok"
    /\ call.qty = 0
    /\ free_list = <<1>>
    /\ mem[1].id = call.id
    /\ mem[1].price = call.price
    /\ best_bid = None
    /\ best_ask = None

\* ----------------------------------------------------------------- C19
\* C19: the book is never left crossed: with both sides non-empty the best
\* bid price is below the best ask price; an order that rests after its call
\* found the opposite side empty or not crossed by its limit price.
C19_NeverCrossed ==
    /\ (best_bid # None /\ best_ask # None) =>
         mem[best_bid].price < mem[best_ask].price
    /\ (Matched /\ call.id \in RestingIds) =>
         IF mem[order_index[call.id]].side = "Buy"
         THEN best_ask = None \/ call.price < mem[best_ask].price
         ELSE best_bid = None \/ call.price > mem[best_bid].price

\* A taker that traded, rests with its remainder, and faces a non-empty
\* opposite side.
C19_Witness ==
    /\ call.op = "place"
    /\ call.result = "Ok"
    /\ Len(trades) >= 1
    /\ call.id \in RestingIds
    /\ best_bid # None
    /\ best_ask # None

\* ----------------------------------------------------------------- C20
\* C20: each chain is a finite acyclic doubly-linked list (head's prev is
\* None, r.next = n implies n.prev = r), no record is on both chains, the bid
\* chain holds only Buy and the ask chain only Sell records, and
\* best_bid_price / best_ask_price is the head's price, the maximum bid /
\* minimum ask, and None exactly when that side has no resting order.
RestingOn(side) ==
    {p \in IndexedSlots : mem[p].side = side /\ mem[p].qty > 0}

WellFormedChain(c, head, side) ==
    /\ Len(c) <= order_arena
    /\ Cardinality(Range(c)) = Len(c)
    /\ head # None => c[1] = head /\ mem[head].prev = None
    /\ head = None => c = <<>>
    /\ \A i \in 1..Len(c) :
         /\ mem[c[i]].side = side
         /\ mem[c[i]].next = IF i < Len(c) THEN c[i + 1] ELSE None
         /\ mem[c[i]].next # None => mem[mem[c[i]].next].prev = c[i]
    /\ Range(c) = RestingOn(side)

C20_ChainsWellFormed ==
    /\ WellFormedChain(BidChain, best_bid, "Buy")
    /\ WellFormedChain(AskChain, best_ask, "Sell")
    /\ Range(BidChain) \cap Range(AskChain) = {}
    /\ best_bid_price(Book) = None <=> RestingOn("Buy") = {}
    /\ best_ask_price(Book) = None <=> RestingOn("Sell") = {}
    /\ \A p \in RestingOn("Buy") : best_bid_price(Book) >= mem[p].price
    /\ \A p \in RestingOn("Sell") : best_ask_price(Book) <= mem[p].price
    /\ best_bid # None => best_bid_price(Book) = mem[BidChain[1]].price
    /\ best_ask # None => best_ask_price(Book) = mem[AskChain[1]].price

\* The head of a three-order ask chain was fully filled and unlinked; the two
\* orders left form the chain.
C20_Witness ==
    /\ Matched
    /\ call.side = "Buy"
    /\ Len(trades) = 1
    /\ mem[order_index[trades[1].maker_id]].qty = 0
    /\ Len(AskChain) = 2
    /\ order_arena = 3

\* ----------------------------------------------------------------- C21
\* C21: no zero-quantity ghosts.  In every reachable state each record linked
\* into a chain has quantity >= 1, and each trade of the last call has
\* quantity >= 1 and a maker id different from its taker id.  A placement of
\* quantity 0, or one the matcher fills completely, returns Ok without
\* resting, without an index entry and without taking a slot from the free
\* list or the arena; a modify to quantity 0 that returns leaves the id
\* unlinked and out of the index.
NoZeroQuantity ==
    /\ \A p \in Linked : mem[p].qty >= 1
    /\ \A i \in 1..Len(trades) :
         /\ trades[i].quantity >= 1
         /\ trades[i].maker_id # trades[i].taker_id

NoSlotForFilledTaker ==
    (/\ call'.op = "place"
     /\ call'.id \notin DOMAIN order_index
     /\ SumQty(trades', Len(trades')) = call'.qty)
    => /\ call'.result = "Ok"
       /\ call'.id \notin RestingIds'
       /\ order_index' = order_index
       /\ free_list' = free_list
       /\ order_arena' = order_arena

ModifyToZeroUnlinks ==
    (/\ call'.op = "modify"
     /\ call'.qty = 0
     /\ call'.result = "Ok")
    => /\ call'.id \notin RestingIds'
       /\ call'.id \notin DOMAIN order_index'
       /\ trades' = <<>>

C21_NoZeroQuantityGhosts ==
    /\ []NoZeroQuantity
    /\ [][NoSlotForFilledTaker /\ ModifyToZeroUnlinks]_vars

\* A taker was filled completely by two makers: the first maker was filled
\* and unlinked, the second keeps quantity 1 on its chain, and the taker
\* neither rests nor is indexed.
C21_Witness ==
    /\ call.op = "place"
    /\ call.result = "Ok"
    /\ Len(trades) = 2
    /\ SumQty(trades, 2) = call.qty
    /\ trades[1].maker_id \in DOMAIN order_index
    /\ order_index[trades[1].maker_id] \notin Linked
    /\ mem[order_index[trades[1].maker_id]].qty = 0
    /\ trades[2].maker_id \in RestingIds
    /\ mem[order_index[trades[2].maker_id]].qty = 1
    /\ call.id \notin RestingIds
    /\ call.id \notin DOMAIN order_index

====
